---- MODULE Spec2Model ----
(***************************************************************************)
(* A model of the usage reporting classes of openstack_dashboard/usage/     *)
(* base.py and of the cluster / node template table actions of              *)
(* openstack_dashboard/dashboards/project/hadoop/tables.py.                 *)
(*                                                                         *)
(* The module holds five independent state machines, one per component:     *)
(*   SpecUsage    BaseUsage.summarize on one BaseUsage object               *)
(*   SpecProject  ProjectUsage.get_usage_list                               *)
(*   SpecDates    BaseUsage.get_start / get_end against the wall clock      *)
(*   SpecCsv      BaseCsvResponse and BaseCsvStreamingResponse              *)
(*   SpecTables   the batch actions of the cluster and template tables      *)
(* Each specification leaves the variables of the other components alone.   *)
(***************************************************************************)
EXTENDS Integers, Sequences, FiniteSets, TLC

VARIABLES
    \* ---- BaseUsage object (base.py 34-39) and what summarize touches
    summary,        \* self.summary: a dict, here a function on a set of keys
    usage_list,     \* self.usage_list: a sequence of project usages
    api_calls,      \* number of get_usage_list calls made so far
    info_msgs,      \* messages.info(...) texts emitted so far
    handled_msgs,   \* exceptions.handle(...) texts emitted so far
    ncalls,         \* number of summarize calls on this object
    last,           \* the last summarize call: its inputs and how it ended
    \* ---- ProjectUsage.get_usage_list (base.py 141-163)
    GET,            \* request.GET: a dict of query parameters (strings)
    pu_now,         \* self.today as read at base.py 151
    usage_got,      \* what api.nova.usage_get returned, as it was returned
    usage,          \* the same object as get_usage_list leaves it
    server_objs,    \* the server usage dicts, by identity (index), as left
    returned,       \* what get_usage_list returned, <<>> before the call
    pu_pc,          \* "start" before the call, "done" after it
    \* ---- the date range of a usage view (base.py 45-76)
    clock,          \* the wall clock: what timezone.now() returns
    ge,             \* the last get_end call: arguments, clock reads, result
    dr,             \* self.start / self.end once get_date_range has set them
    dt_pc,          \* "idle", or the call that has just returned
    \* ---- CSV responses (base.py 166-290)
    csv_in,         \* the rendered header, the columns and the rows
    b_out,          \* BaseCsvResponse: self.out, a StringIO
    content,        \* BaseCsvResponse: self.content
    b_pc,           \* BaseCsvResponse: "new" or "done"
    s_out,          \* BaseCsvStreamingResponse: self.out, a StringIO
    chunks,         \* the chunks get_content has yielded, in order
    s_i,            \* the row get_content writes next
    s_pc,           \* get_content: "new", "rows" (suspended at a yield), "done"
    \* ---- the hadoop tables (tables.py) and the ehoclient library
    client_calls,   \* per client function and id: the calls received so far
    t_last,         \* the last batch action: its name, the selected ids,
                    \* and the ids its allowed() refused
    t_n             \* number of batch actions handled so far

usageVars == <<summary, usage_list, api_calls, info_msgs, handled_msgs, ncalls, last>>

projectVars == <<GET, pu_now, usage_got, usage, server_objs, returned, pu_pc>>

dateVars == <<clock, ge, dr, dt_pc>>

csvVars == <<csv_in, b_out, content, b_pc, s_out, chunks, s_i, s_pc>>

tableVars == <<client_calls, t_last, t_n>>

vars == <<usageVars, projectVars, dateVars, csvVars, tableVars>>

(***************************************************************************)
(* Bounds                                                                   *)
(***************************************************************************)
MaxTime == 1        \* instants 0..MaxTime stand for start, end and today
MaxLen == 2         \* longest list get_usage_list returns
MaxCalls == 2       \* summarize calls on one object
MaxServers == 2     \* most server usages in one usage object
TicksPerDay == 2    \* clock instants per day; midnight is a multiple of it
MaxAdvance == 2     \* most instants the clock moves during one call
MaxDay == 2         \* get_start / get_end are called with day in 1..MaxDay
MaxRows == 2        \* most rows get_row_data yields
MaxOps == 2         \* batch actions handled in one run

Times == 0 .. MaxTime

(***************************************************************************)
(* Small helpers                                                            *)
(***************************************************************************)
SeqsUpTo(S, n) == UNION {[1 .. k -> S] : k \in 0 .. n}

RECURSIVE SumSet(_, _)
\* the sum of f[x] over the finite set S
SumSet(f, S) ==
    IF S = {} THEN 0
    ELSE LET x == CHOOSE y \in S : TRUE
         IN  f[x] + SumSet(f, S \ {x})

(***************************************************************************)
(* BaseUsage                                                                *)
(***************************************************************************)
\* What get_summary() of a project usage can return: a dict of counters.
\* The key sets differ so that the union of key sets is exercised.
ProjectSummaries ==
    { [instances |-> 1, vcpus |-> 2],
      [instances |-> 2, memory_mb |-> 3] }

\* project_usage.get_summary(): a project usage is modelled by its summary
get_summary(project_usage) == project_usage

FutureMsg == "You are viewing data for the future, which may or may not exist."
UnableMsg == "Unable to retrieve usage information."

\* a faulty variant of InRange: the comparison with today is forgotten
InRangeNoToday(start, end, today) == start <= end

\* base.py 93: start <= end <= self.today (a chained comparison)
InRange(start, end, today) == start <= end /\ end <= today

\* base.py 111: self.summary.setdefault(key, 0)
setdefault(d, key, dflt) ==
    IF key \in DOMAIN d THEN d
    ELSE [k \in DOMAIN d \cup {key} |-> IF k = key THEN dflt ELSE d[k]]

\* a faulty variant of AddItem: assigns instead of accumulating
AddItemAssign(d, key, value) ==
    LET d1 == setdefault(d, key, 0)
    IN  [d1 EXCEPT ![key] = value]

\* base.py 111-112: setdefault, then self.summary[key] += value
AddItem(d, key, value) ==
    LET d1 == setdefault(d, key, 0)
    IN  [d1 EXCEPT ![key] = d1[key] + value]

RECURSIVE AddItems(_, _, _)
\* base.py 110-112: the loop over project_summary.items()
AddItems(d, project_summary, keys) ==
    IF keys = {} THEN d
    ELSE LET key == CHOOSE k \in keys : TRUE
         IN  AddItems(AddItem(d, key, project_summary[key]),
                      project_summary, keys \ {key})

RECURSIVE Aggregate(_, _, _)
\* base.py 108-112: the loop over self.usage_list, from element i on
Aggregate(d, list, i) ==
    IF i > Len(list) THEN d
    ELSE LET project_summary == get_summary(list[i])
         IN  Aggregate(AddItems(d, project_summary, DOMAIN project_summary),
                       list, i + 1)

\* The lists of project usages the compute API can answer a get_usage_list
\* call with (it can also raise: summarize_raise).
ApiResponses == SeqsUpTo(ProjectSummaries, MaxLen)

\* base.py 34-39: BaseUsage.__init__
InitUsage ==
    /\ summary = <<>>
    /\ usage_list = <<>>
    /\ api_calls = 0
    /\ info_msgs = <<>>
    /\ handled_msgs = <<>>
    /\ ncalls = 0
    /\ last = [start |-> 0, end |-> 0, today |-> 0, api |-> "none",
               resp |-> <<>>, exc |-> "none"]

\* base.py 92-112, the branch that calls the API and gets a list back
summarize_ok(start, end, today, resp) ==
    /\ InRange(start, end, today)
    /\ api_calls' = api_calls + 1
    /\ usage_list' = resp
    /\ summary' = Aggregate(summary, usage_list', 1)
    /\ UNCHANGED <<info_msgs, handled_msgs>>
    /\ last' = [start |-> start, end |-> end, today |-> today,
                api |-> "returned", resp |-> resp, exc |-> "none"]

\* a faulty variant of summarize_raise: the except clause resets self.usage_list
summarize_raise_reset(start, end, today, handle_raises) ==
    /\ InRange(start, end, today)
    /\ api_calls' = api_calls + 1
    /\ handled_msgs' = Append(handled_msgs, UnableMsg)
    /\ usage_list' = <<>>
    /\ UNCHANGED info_msgs
    /\ summary' = summary
    /\ last' = [start |-> start, end |-> end, today |-> today,
                api |-> "raised", resp |-> <<>>,
                exc |-> IF handle_raises THEN "handle" ELSE "none"]

\* base.py 92-112, the branch where get_usage_list raises: the bare except
\* hands the error to exceptions.handle, which returns or raises itself
summarize_raise(start, end, today, handle_raises) ==
    /\ InRange(start, end, today)
    /\ api_calls' = api_calls + 1
    /\ handled_msgs' = Append(handled_msgs, UnableMsg)
    /\ UNCHANGED <<usage_list, info_msgs>>
    /\ IF handle_raises
       THEN /\ summary' = summary
            /\ last' = [start |-> start, end |-> end, today |-> today,
                        api |-> "raised", resp |-> <<>>, exc |-> "handle"]
       ELSE /\ summary' = Aggregate(summary, usage_list, 1)
            /\ last' = [start |-> start, end |-> end, today |-> today,
                        api |-> "raised", resp |-> <<>>, exc |-> "none"]

\* base.py 92-112, the else branch: no query, an informational message
summarize_future(start, end, today) ==
    /\ ~InRange(start, end, today)
    /\ info_msgs' = Append(info_msgs, FutureMsg)
    /\ UNCHANGED <<usage_list, api_calls, handled_msgs>>
    /\ summary' = Aggregate(summary, usage_list, 1)
    /\ last' = [start |-> start, end |-> end, today |-> today,
                api |-> "none", resp |-> <<>>, exc |-> "none"]

\* base.py 92-112: BaseUsage.summarize(start, end) with self.today = today
summarize ==
    /\ ncalls < MaxCalls
    /\ ncalls' = ncalls + 1
    /\ \E start \in Times, end \in Times, today \in Times :
          \/ \E resp \in ApiResponses : summarize_ok(start, end, today, resp)
          \/ \E handle_raises \in BOOLEAN :
                summarize_raise(start, end, today, handle_raises)
          \/ summarize_future(start, end, today)

(***************************************************************************)
(* ProjectUsage                                                             *)
(***************************************************************************)
\* Python values, tagged with their type, and Python's truth value of them
PyNone == [t |-> "NoneType"]
PyStr(v) == [t |-> "str", v |-> v]
PyBool(v) == [t |-> "bool", v |-> v]

\* the truth value Python gives a value in `x and ...` / `not x`
Truthy(x) ==
    CASE x.t = "NoneType" -> FALSE
      [] x.t = "str" -> x.v # ""
      [] x.t = "bool" -> x.v

\* base.py 32: BaseUsage.show_terminated, which ProjectUsage inherits
show_terminated_default == PyBool(FALSE)

\* the values the query string can give show_terminated: always strings
GETValues == {PyStr(""), PyStr("False"), PyStr("True")}

\* request.GET: with or without the show_terminated parameter
GETs == {<<>>} \cup {[show_terminated |-> v] : v \in GETValues}

\* ended_at of a server usage as the compute API gives it
EndedAtValues == {PyNone, PyStr("2013-03-01T00:00:00")}

\* uptime of a server usage, in seconds
Uptimes == {1, 2}

\* a server usage dict as the compute API gives it
ServerUsages == [uptime : Uptimes, ended_at : EndedAtValues]

\* the instants self.today can be when get_usage_list runs
Todays == {10, 11}

\* base.py 142-143: request.GET.get('show_terminated', self.show_terminated)
GET_get(d, key, dflt) == IF key \in DOMAIN d THEN d[key] ELSE dflt

\* dict[key] = value on a dict that may lack the key
SetItem(d, key, value) ==
    [k \in DOMAIN d \cup {key} |-> IF k = key THEN value ELSE d[k]]

\* a faulty variant of Terminated: the `not` of base.py 158 is dropped
TerminatedNoNot(server_usage, show_terminated) ==
    Truthy(server_usage["ended_at"]) /\ Truthy(show_terminated)

\* base.py 158: server_usage['ended_at'] and not show_terminated
Terminated(server_usage, show_terminated) ==
    Truthy(server_usage["ended_at"]) /\ ~Truthy(show_terminated)

RECURSIVE ServerLoop(_, _, _, _, _)
\* base.py 152-161: the loop over usage.server_usages from position i on; st
\* holds the dicts (objs) and the two lists of references being built
ServerLoop(refs, i, now, show_terminated, st) ==
    IF i > Len(refs) THEN st
    ELSE LET r == refs[i]
             server_uptime == st.objs[r]["uptime"]
             total_uptime == now - server_uptime
             obj == SetItem(st.objs[r], "uptime_at", total_uptime)
             objs == [st.objs EXCEPT ![r] = obj]
         IN  IF Terminated(obj, show_terminated)
             THEN ServerLoop(refs, i + 1, now, show_terminated,
                     [st EXCEPT !.objs = objs,
                                !.terminated_instances = Append(@, r)])
             ELSE ServerLoop(refs, i + 1, now, show_terminated,
                     [st EXCEPT !.objs = objs,
                                !.instances = Append(@, r)])

\* the state before ProjectUsage.get_usage_list runs: the request and what
\* api.nova.usage_get will return for it
InitProject ==
    /\ GET \in GETs
    /\ pu_now \in Todays
    /\ \E objs \in SeqsUpTo(ServerUsages, MaxServers), has_attr \in BOOLEAN :
          /\ has_attr \/ objs = <<>>
          /\ server_objs = objs
          /\ usage = IF has_attr
                     THEN [server_usages |-> [i \in 1 .. Len(objs) |-> i]]
                     ELSE <<>>
          /\ usage_got = [attrs |-> usage, objs |-> objs]
    /\ returned = <<>>
    /\ pu_pc = "start"

\* base.py 141-163: ProjectUsage.get_usage_list(start, end)
get_usage_list ==
    /\ pu_pc = "start"
    /\ LET show_terminated == GET_get(GET, "show_terminated", show_terminated_default)
           st0 == [objs |-> server_objs, instances |-> <<>>,
                   terminated_instances |-> <<>>]
           st == IF "server_usages" \in DOMAIN usage
                 THEN ServerLoop(usage["server_usages"], 1, pu_now,
                                 show_terminated, st0)
                 ELSE st0
       IN  /\ server_objs' = st.objs
           /\ usage' = SetItem(usage, "server_usages", st.instances)
           /\ returned' = <<usage'>>
    /\ pu_pc' = "done"
    /\ UNCHANGED <<GET, pu_now, usage_got>>

\* no ProjectUsage request in progress
IdleProject ==
    /\ GET = <<>>
    /\ pu_now = 0
    /\ usage_got = [attrs |-> <<>>, objs |-> <<>>]
    /\ usage = <<>>
    /\ server_objs = <<>>
    /\ returned = <<>>
    /\ pu_pc = "idle"

(***************************************************************************)
(* Date range: get_start, get_end, get_date_range                           *)
(***************************************************************************)
\* the years of the model's calendar: a leap year and the year after it
Years == {2012, 2013}

Months == 1 .. 12

\* calendar.isleap(year)
isleap(year) == year % 4 = 0 /\ (year % 100 # 0 \/ year % 400 = 0)

\* base.py 52: monthrange(year, month)[1], the number of days of the month
monthrange_days(year, month) ==
    CASE month \in {1, 3, 5, 7, 8, 10, 12} -> 31
      [] month \in {4, 6, 9, 11} -> 30
      [] month = 2 -> IF isleap(year) THEN 29 ELSE 28

\* the number of days from 1 January of the first year to the given date
Ordinal(year, month, day) ==
    LET before == {y \in Years : y < year}
        earlier == 1 .. (month - 1)
    IN  SumSet([y \in before |-> IF isleap(y) THEN 366 ELSE 365], before)
        + SumSet([k \in earlier |-> monthrange_days(year, k)], earlier)
        + (day - 1)

\* base.py 45-48: get_start(year, month, day): midnight UTC of that date, as
\* a clock instant
get_start(year, month, day) == Ordinal(year, month, day) * TicksPerDay

\* base.py 56-57: datetime.combine(end, time(0, 0, 0)) made aware: midnight
\* of the date of `end`
MidnightOf(t) == (t \div TicksPerDay) * TicksPerDay

\* base.py 50-60: get_end(year, month, day); now1 is the clock read of line
\* 58 and now2 the separate clock read of line 59
get_end(year, month, day, now1, now2) ==
    LET days_in_month == monthrange_days(year, month)
        period == days_in_month * TicksPerDay
        end == get_start(year, month, day) + period
        date_end == MidnightOf(end)
    IN  IF date_end > now1 THEN now2 ELSE date_end

\* the window of clock instants explored: from 30 December of the first year
\* to 2 March of the second, so that month ends are crossed
ClockFirst == get_start(2012, 12, 30)
ClockLast == get_start(2013, 3, 2)

\* self.today.year and self.today.month for a clock instant (base.py 69)
YearOf(t) ==
    CHOOSE y \in Years : /\ get_start(y, 1, 1) <= t
                         /\ t < get_start(y, 12, 1) + 31 * TicksPerDay
MonthOf(t) ==
    CHOOSE m \in Months :
        LET y == YearOf(t)
        IN  /\ get_start(y, m, 1) <= t
            /\ t < get_start(y, m, 1) + monthrange_days(y, m) * TicksPerDay

NoCall == [year |-> 0, month |-> 0, day |-> 0, now1 |-> 0, now2 |-> 0, result |-> 0]

\* a view is about to ask for its date range; the object has no start / end
InitDates ==
    /\ clock = ClockFirst
    /\ ge = NoCall
    /\ dr = <<>>
    /\ dt_pc = "idle"

\* no date range in play
IdleDates ==
    /\ clock = 0
    /\ ge = NoCall
    /\ dr = <<>>
    /\ dt_pc = "off"

\* time passes between requests
Tick ==
    /\ dt_pc = "idle"
    /\ clock < ClockLast
    /\ clock' = clock + 1
    /\ UNCHANGED <<ge, dr, dt_pc>>

\* base.py 50-60: one call of BaseUsage.get_end(year, month, day); the clock
\* is read twice and may move between the reads
call_get_end ==
    /\ dt_pc = "idle"
    /\ \E year \in Years, month \in Months, day \in 1 .. MaxDay,
          adv \in 0 .. MaxAdvance :
          /\ clock + adv <= ClockLast
          /\ ge' = [year |-> year, month |-> month, day |-> day,
                    now1 |-> clock, now2 |-> clock + adv,
                    result |-> get_end(year, month, day, clock, clock + adv)]
          /\ clock' = clock + adv
    /\ dt_pc' = "get_end"
    /\ UNCHANGED dr

\* base.py 67-76: get_date_range() on an object without start / end; the
\* form supplies year and month when it is valid, else today's are used, and
\* today is read once for the year and once for the month
get_date_range ==
    /\ dt_pc = "idle"
    /\ dr = <<>>
    /\ \E form_valid \in BOOLEAN, fy \in Years, fm \in Months,
          a1 \in 0 .. MaxAdvance, a2 \in 0 .. MaxAdvance,
          a3 \in 0 .. MaxAdvance, a4 \in 0 .. MaxAdvance :
          /\ a1 <= a2 /\ a2 <= a3 /\ a3 <= a4
          /\ clock + a4 <= ClockLast
          /\ form_valid \/ (fy = 2012 /\ fm = 1)
          /\ LET year == IF form_valid THEN fy ELSE YearOf(clock + a1)
                 month == IF form_valid THEN fm ELSE MonthOf(clock + a2)
             IN  /\ dr' = [start |-> get_start(year, month, 1),
                           end |-> get_end(year, month, 1, clock + a3, clock + a4)]
                 /\ ge' = [year |-> year, month |-> month, day |-> 1,
                           now1 |-> clock + a3, now2 |-> clock + a4,
                           result |-> get_end(year, month, 1, clock + a3, clock + a4)]
          /\ clock' = clock + a4
    /\ dt_pc' = "get_date_range"

\* base.py 34-39: the request is over; the next one builds a new object
new_request ==
    /\ dt_pc \in {"get_end", "get_date_range"}
    /\ dt_pc' = "idle"
    /\ ge' = NoCall
    /\ dr' = <<>>
    /\ UNCHANGED clock

(***************************************************************************)
(* CSV: CsvDataMixin, BaseCsvResponse, BaseCsvStreamingResponse             *)
(*                                                                         *)
(* Text is a sequence of code points, encoded text a sequence of bytes.     *)
(***************************************************************************)
PyUnicode(v) == [t |-> "unicode", v |-> v]

\* base.py 229 / 278: the truth value of self.header (None or a text)
HeaderTruthy(h) == h.t = "unicode" /\ h.v # <<>>

RECURSIVE Concat(_)
\* the concatenation of a sequence of sequences
Concat(ss) == IF ss = <<>> THEN <<>> ELSE Head(ss) \o Concat(Tail(ss))

\* UTF-8 of one code point below 2048
utf8(cp) ==
    IF cp < 128 THEN <<cp>>
    ELSE <<192 + (cp \div 64), 128 + (cp % 64)>>

\* base.py 203-206: unicode(value).encode('utf-8')
encode(value) == Concat([i \in 1 .. Len(value) |-> utf8(value[i])])

\* ---- StringIO.StringIO (base.py 7, 177): a buffer and a position
NewStringIO == [buf |-> <<>>, pos |-> 0]

\* StringIO.write(s): at the end it appends, past the end it pads with NUL
\* bytes, before the end it overwrites
StringIO_write(out, str) ==
    IF str = <<>> THEN out
    ELSE LET padded == IF out.pos > Len(out.buf)
                       THEN out.buf \o [i \in 1 .. (out.pos - Len(out.buf)) |-> 0]
                       ELSE out.buf
             newpos == out.pos + Len(str)
         IN  [buf |-> SubSeq(padded, 1, out.pos) \o str
                      \o SubSeq(padded, newpos + 1, Len(padded)),
              pos |-> newpos]

\* StringIO.getvalue()
StringIO_getvalue(out) == out.buf

\* StringIO.truncate(size): cuts the buffer and moves the position back to
\* size when it was after it
StringIO_truncate(out, size) ==
    [buf |-> SubSeq(out.buf, 1, IF size < Len(out.buf) THEN size ELSE Len(out.buf)),
     pos |-> IF size < out.pos THEN size ELSE out.pos]

\* ---- csv.writer with the default (excel) dialect (base.py 4, 183)
\* a field is quoted when it holds the delimiter, the quote character or a
\* line break, and when it is the empty only field of its row
csv_needs_quote(field, alone) ==
    \/ \E i \in 1 .. Len(field) : field[i] \in {44, 34, 13, 10}
    \/ alone /\ field = <<>>

csv_field(field, alone) ==
    IF csv_needs_quote(field, alone)
    THEN <<34>> \o Concat([i \in 1 .. Len(field) |->
                              IF field[i] = 34 THEN <<34, 34>> ELSE <<field[i]>>])
         \o <<34>>
    ELSE field

\* writer.writerow(fields): what it hands to out.write
csv_row(fields) ==
    Concat([i \in 1 .. Len(fields) |->
               (IF i > 1 THEN <<44>> ELSE <<>>) \o csv_field(fields[i], Len(fields) = 1)])
    \o <<13, 10>>

RECURSIVE dict_zip(_, _, _, _)
\* dict(zip(keys, values)) built from pair i on: zip stops at the shorter
\* sequence and a later pair replaces an earlier one with the same key
dict_zip(keys, values, i, d) ==
    IF i > Len(keys) \/ i > Len(values) THEN d
    ELSE dict_zip(keys, values, i + 1, SetItem(d, keys[i], values[i]))

\* DictWriter._dict_to_list: rowdict.get(key, restval) for each fieldname
dict_to_list(fieldnames, rowdict) ==
    [i \in 1 .. Len(fieldnames) |->
        IF fieldnames[i] \in DOMAIN rowdict THEN rowdict[fieldnames[i]] ELSE <<>>]

\* base.py 176-184: the writer of CsvDataMixin.__init__: DictWriter over the
\* encoded columns when the class has columns, a plain writer otherwise
fieldnames(cols) == [i \in 1 .. Len(cols.names) |-> encode(cols.names[i])]

\* base.py 186-194: write_csv_header
write_csv_header(out, cols) ==
    IF cols.present
    THEN StringIO_write(out,
            csv_row(dict_to_list(fieldnames(cols),
                        dict_zip(fieldnames(cols), fieldnames(cols), 1, <<>>))))
    ELSE out

\* base.py 196-201: write_csv_row
write_csv_row(out, cols, args) ==
    LET encoded == [i \in 1 .. Len(args) |-> encode(args[i])]
    IN  IF cols.present
        THEN StringIO_write(out,
                csv_row(dict_to_list(fieldnames(cols),
                            dict_zip(fieldnames(cols), encoded, 1, <<>>))))
        ELSE StringIO_write(out, csv_row(encoded))

\* base.py 229-230 / 278-279: the header text goes first, when there is one
write_header(out, header) ==
    IF HeaderTruthy(header) THEN StringIO_write(out, encode(header.v)) ELSE out

RECURSIVE write_rows(_, _, _, _)
\* base.py 234-235: the loop over get_row_data(), from row i on
write_rows(out, cols, rows, i) ==
    IF i > Len(rows) THEN out
    ELSE write_rows(write_csv_row(out, cols, rows[i]), cols, rows, i + 1)

\* a faulty variant of buffer: the buffer is not truncated
buffer_keep(out) == [buf |-> StringIO_getvalue(out), out |-> out]

\* base.py 272-275: buffer(): the value of self.out, which is then truncated
buffer(out) ==
    [buf |-> StringIO_getvalue(out), out |-> StringIO_truncate(out, 0)]

\* the rendered header: no template, an empty rendering, or "Hé" and a
\* line break
Headers == {PyNone, PyUnicode(<<>>), PyUnicode(<<72, 233, 10>>)}

\* the columns attribute: absent, or one, two, or two equal column names
Columns ==
    { [present |-> FALSE, names |-> <<>>],
      [present |-> TRUE, names |-> << <<97>> >>],
      [present |-> TRUE, names |-> << <<97>>, <<44, 98>> >>],
      [present |-> TRUE, names |-> << <<97>>, <<97>> >>] }

\* the rows get_row_data can yield: no field, one empty field, two fields
\* (the second with a comma and a non-ASCII letter), three fields (the first
\* a double quote)
RowValues ==
    { <<>>,
      << <<>> >>,
      << <<49>>, <<44, 233>> >>,
      << <<34>>, <<50>>, <<51>> >> }

\* both responses are built for the same header, columns and rows
InitCsv ==
    /\ csv_in \in [header : Headers, columns : Columns,
                   rows : SeqsUpTo(RowValues, MaxRows)]
    /\ b_out = NewStringIO
    /\ content = <<>>
    /\ b_pc = "new"
    /\ s_out = NewStringIO
    /\ chunks = <<>>
    /\ s_i = 1
    /\ s_pc = "new"

\* no CSV response in play
IdleCsv ==
    /\ csv_in = [header |-> PyNone, columns |-> [present |-> FALSE, names |-> <<>>],
                 rows |-> <<>>]
    /\ b_out = NewStringIO
    /\ content = <<>>
    /\ b_pc = "off"
    /\ s_out = NewStringIO
    /\ chunks = <<>>
    /\ s_i = 1
    /\ s_pc = "off"

\* base.py 216-239: BaseCsvResponse.__init__
BaseCsvResponse_init ==
    /\ b_pc = "new"
    /\ LET out1 == write_header(b_out, csv_in.header)
           out2 == write_csv_header(out1, csv_in.columns)
           out3 == write_rows(out2, csv_in.columns, csv_in.rows, 1)
       IN  /\ content' = StringIO_getvalue(out3)
           /\ b_out' = out3
    /\ b_pc' = "done"
    /\ UNCHANGED <<csv_in, s_out, chunks, s_i, s_pc>>

\* base.py 277-282: get_content up to its first yield
get_content_first ==
    /\ s_pc = "new"
    /\ LET out1 == write_header(s_out, csv_in.header)
           out2 == write_csv_header(out1, csv_in.columns)
           b == buffer(out2)
       IN  /\ chunks' = Append(chunks, b.buf)
           /\ s_out' = b.out
    /\ s_pc' = "rows"
    /\ UNCHANGED <<csv_in, b_out, content, b_pc, s_i>>

\* base.py 284-286: get_content resumed, with a row left: it writes the row
\* and yields the buffer
get_content_row ==
    /\ s_pc = "rows"
    /\ s_i <= Len(csv_in.rows)
    /\ LET out1 == write_csv_row(s_out, csv_in.columns, csv_in.rows[s_i])
           b == buffer(out1)
       IN  /\ chunks' = Append(chunks, b.buf)
           /\ s_out' = b.out
    /\ s_i' = s_i + 1
    /\ UNCHANGED <<csv_in, b_out, content, b_pc, s_pc>>

\* base.py 284: get_content resumed with no row left: the generator ends
get_content_end ==
    /\ s_pc = "rows"
    /\ s_i > Len(csv_in.rows)
    /\ s_pc' = "done"
    /\ UNCHANGED <<csv_in, b_out, content, b_pc, s_out, chunks, s_i>>

(***************************************************************************)
(* The hadoop tables: batch actions and the ehoclient calls they make       *)
(***************************************************************************)
\* the ids of the rows (clusters, node templates) a table can show
ObjIds == {"id1", "id2", "id3"}

\* tables.py 38: the two ehoclient functions the actions call
ClientFns == {"terminate_cluster", "delete_template"}

\* the client receives one more call fn(obj_id)
client_call(calls, fn, obj_id) == [calls EXCEPT ![fn][obj_id] = @ + 1]

\* tables.py 95-96: DeleteTemplate.allowed(request, template)
DeleteTemplate_allowed(template) == TRUE

\* tables.py 98-99: DeleteTemplate.action(request, template_id)
DeleteTemplate_action(calls, template_id) ==
    client_call(calls, "delete_template", template_id)

\* tables.py 125-126: TerminateCluster.allowed(request, template)
TerminateCluster_allowed(template) == TRUE

\* a faulty variant of TerminateCluster_action: the body is `pass`, as in
\* TerminateInstance.action
TerminateCluster_action_pass(calls, cluster_id) == calls

\* tables.py 128-129: TerminateCluster.action(request, cluster_id)
TerminateCluster_action(calls, cluster_id) ==
    client_call(calls, "terminate_cluster", cluster_id)

\* the action class behind a batch action name (tables.py 86, 115)
action_of(name, calls, obj_id) ==
    IF name = "terminate" THEN TerminateCluster_action(calls, obj_id)
    ELSE DeleteTemplate_action(calls, obj_id)

allowed_of(name, obj_id) ==
    IF name = "terminate" THEN TerminateCluster_allowed(obj_id)
    ELSE DeleteTemplate_allowed(obj_id)

RECURSIVE BatchAction_handle(_, _, _)
\* the table framework applying a batch action to the selected ids: for each
\* id whose row the action allows, one call of action(request, id)
BatchAction_handle(name, ids, calls) ==
    IF ids = {} THEN calls
    ELSE LET obj_id == CHOOSE x \in ids : TRUE
             calls1 == IF allowed_of(name, obj_id)
                       THEN action_of(name, calls, obj_id)
                       ELSE calls
         IN  BatchAction_handle(name, ids \ {obj_id}, calls1)

\* nothing has been asked of the client yet
InitTables ==
    /\ client_calls = [fn \in ClientFns |-> [obj_id \in ObjIds |-> 0]]
    /\ t_last = [action |-> "none", ids |-> {}, refused |-> {}]
    /\ t_n = 0

\* tables.py 175-181: InstancesTable: TerminateCluster as a table action
\* (the selected rows) and as a row action (one row)
InstancesTable_terminate ==
    /\ t_n < MaxOps
    /\ \E ids \in (SUBSET ObjIds) \ {{}} :
          /\ client_calls' = BatchAction_handle("terminate", ids, client_calls)
          /\ t_last' = [action |-> "terminate", ids |-> ids,
                        refused |-> {x \in ids : ~allowed_of("terminate", x)}]
    /\ t_n' = t_n + 1

\* tables.py 192-198: NodeTemplatesTable: DeleteTemplate as a table action
\* and as a row action
NodeTemplatesTable_delete_template ==
    /\ t_n < MaxOps
    /\ \E ids \in (SUBSET ObjIds) \ {{}} :
          /\ client_calls' = BatchAction_handle("delete_template", ids, client_calls)
          /\ t_last' = [action |-> "delete_template", ids |-> ids,
                        refused |-> {x \in ids : ~allowed_of("delete_template", x)}]
    /\ t_n' = t_n + 1

(***************************************************************************)
(* Specifications                                                           *)
(***************************************************************************)
NextUsage == summarize /\ UNCHANGED <<projectVars, dateVars, csvVars, tableVars>>

InitSpecUsage == InitUsage /\ IdleProject /\ IdleDates /\ IdleCsv /\ InitTables

SpecUsage == InitSpecUsage /\ [][NextUsage]_vars

NextProject == get_usage_list /\ UNCHANGED <<usageVars, dateVars, csvVars, tableVars>>

InitSpecProject == InitUsage /\ InitProject /\ IdleDates /\ IdleCsv /\ InitTables

NextDates ==
    \/ Tick /\ UNCHANGED <<usageVars, projectVars, csvVars, tableVars>>
    \/ call_get_end /\ UNCHANGED <<usageVars, projectVars, csvVars, tableVars>>
    \/ get_date_range /\ UNCHANGED <<usageVars, projectVars, csvVars, tableVars>>
    \/ new_request /\ UNCHANGED <<usageVars, projectVars, csvVars, tableVars>>

InitSpecDates == InitUsage /\ IdleProject /\ InitDates /\ IdleCsv /\ InitTables

SpecDates == InitSpecDates /\ [][NextDates]_vars

NextCsv ==
    \/ BaseCsvResponse_init /\ UNCHANGED <<usageVars, projectVars, dateVars, tableVars>>
    \/ get_content_first /\ UNCHANGED <<usageVars, projectVars, dateVars, tableVars>>
    \/ get_content_row /\ UNCHANGED <<usageVars, projectVars, dateVars, tableVars>>
    \/ get_content_end /\ UNCHANGED <<usageVars, projectVars, dateVars, tableVars>>

InitSpecCsv == InitUsage /\ IdleProject /\ IdleDates /\ InitCsv /\ InitTables

SpecCsv == InitSpecCsv /\ [][NextCsv]_vars

NextTables ==
    \/ InstancesTable_terminate
          /\ UNCHANGED <<usageVars, projectVars, dateVars, csvVars>>
    \/ NodeTemplatesTable_delete_template
          /\ UNCHANGED <<usageVars, projectVars, dateVars, csvVars>>

InitSpecTables == InitUsage /\ IdleProject /\ IdleDates /\ IdleCsv /\ InitTables

SpecTables == InitSpecTables /\ [][NextTables]_vars

SpecProject == InitSpecProject /\ [][NextProject]_vars

(***************************************************************************)
(* Claims about BaseUsage.summarize (checked under SpecUsage)               *)
(***************************************************************************)
\* the elements of the list L that have key k
Having(L, k) == {i \in 1 .. Len(L) : k \in DOMAIN get_summary(L[i])}

\* the key-wise sum of get_summary() over the elements of L
KeywiseSum(L) ==
    [k \in UNION {DOMAIN get_summary(L[i]) : i \in 1 .. Len(L)} |->
        SumSet([i \in Having(L, k) |-> get_summary(L[i])[k]], Having(L, k))]

\* the key-wise sum of two dicts
KeywiseAdd(a, b) ==
    [k \in DOMAIN a \cup DOMAIN b |->
        (IF k \in DOMAIN a THEN a[k] ELSE 0) + (IF k \in DOMAIN b THEN b[k] ELSE 0)]

\* C1: after the first summarize(start, end) on a new object, with
\* start <= end <= today and get_usage_list returning the list L, the keys of
\* summary are the union of the keys of get_summary() over L, and summary[k]
\* is the sum of get_summary()[k] over the elements of L that have k.
C1_SummaryIsKeywiseSum ==
    (ncalls = 1 /\ last.start <= last.end /\ last.end <= last.today
                /\ last.api = "returned")
    => /\ DOMAIN summary =
             UNION {DOMAIN get_summary(last.resp[i]) : i \in 1 .. Len(last.resp)}
       /\ \A k \in DOMAIN summary :
             summary[k] = SumSet([i \in Having(last.resp, k) |->
                                     get_summary(last.resp[i])[k]],
                                 Having(last.resp, k))

\* C1 happens: a first summarize over two different project usages, one key
\* shared (summed) and two keys from one element each
C1_Witness ==
    /\ ncalls = 1
    /\ last.api = "returned"
    /\ Len(last.resp) = 2
    /\ last.resp[1] # last.resp[2]
    /\ DOMAIN summary = {"instances", "vcpus", "memory_mb"}
    /\ summary["instances"] = 3

\* C4: summarize calls get_usage_list exactly once, and emits no 'future'
\* message, when start <= end <= today; otherwise it calls it zero times,
\* leaves usage_list unchanged and emits the 'future' message exactly once.
C4_QueryIffInRange ==
    [][ ncalls' = ncalls + 1 =>
          IF last'.start <= last'.end /\ last'.end <= last'.today
          THEN /\ api_calls' = api_calls + 1
               /\ info_msgs' = info_msgs
          ELSE /\ api_calls' = api_calls
               /\ usage_list' = usage_list
               /\ info_msgs' = Append(info_msgs, FutureMsg) ]_vars

\* C4 happens: one call in range (queried) and one with end after today
\* (not queried, one message), on an object that keeps its usage_list
C4_Witness ==
    /\ ncalls = 2
    /\ last.start <= last.end /\ last.end > last.today
    /\ api_calls = 1
    /\ usage_list # <<>>
    /\ info_msgs = <<FutureMsg>>

\* C5: when get_usage_list raises inside summarize, exceptions.handle gets
\* 'Unable to retrieve usage information.', summarize raises nothing of its
\* own, usage_list keeps its value, and (handle returning) summary is
\* aggregated over that unchanged usage_list; on a new object summary stays
\* empty.
C5_RaiseKeepsUsageList ==
    [][ (ncalls' = ncalls + 1 /\ last'.api = "raised") =>
          /\ handled_msgs' = Append(handled_msgs, UnableMsg)
          /\ last'.exc \in {"none", "handle"}
          /\ usage_list' = usage_list
          /\ last'.exc = "none" =>
                summary' = KeywiseAdd(summary, KeywiseSum(usage_list))
          /\ ncalls = 0 => (usage_list' = <<>> /\ DOMAIN summary' = {}) ]_vars

\* C5 happens: get_usage_list raises on an object that already holds a usage
\* list, and the summary is aggregated over it a second time
C5_Witness ==
    /\ ncalls = 2
    /\ last.api = "raised"
    /\ last.exc = "none"
    /\ usage_list = <<[instances |-> 1, vcpus |-> 2]>>
    /\ summary = [instances |-> 2, vcpus |-> 4]
    /\ handled_msgs = <<UnableMsg>>

(***************************************************************************)
(* Claims about ProjectUsage.get_usage_list (checked under SpecProject)     *)
(***************************************************************************)
\* the show_terminated value the call uses: the query parameter if present,
\* else the class attribute
ShowTerminated ==
    IF "show_terminated" \in DOMAIN GET THEN GET["show_terminated"]
    ELSE show_terminated_default

\* the server usages (by index) the API's usage object came with
GotRefs ==
    IF "server_usages" \in DOMAIN usage_got.attrs
    THEN usage_got.attrs["server_usages"] ELSE <<>>

\* C6: get_usage_list returns a one-element tuple holding the usage object,
\* whose server_usages is the server usages with a falsy ended_at in their
\* original order when show_terminated is falsy, and all of them in original
\* order when it is truthy; every server usage, kept or dropped, gets
\* uptime_at = now - uptime; without a server_usages attribute the returned
\* usage has server_usages = [].
C6_FiltersTerminated ==
    pu_pc = "done" =>
      /\ Len(returned) = 1
      /\ returned[1] = usage
      /\ "server_usages" \in DOMAIN usage
      /\ LET kept == usage["server_usages"]
             want == IF Truthy(ShowTerminated)
                     THEN {GotRefs[i] : i \in 1 .. Len(GotRefs)}
                     ELSE {GotRefs[i] : i \in
                              {j \in 1 .. Len(GotRefs) :
                                  ~Truthy(usage_got.objs[GotRefs[j]]["ended_at"])}}
         IN  /\ {kept[i] : i \in 1 .. Len(kept)} = want
             /\ \A i, j \in 1 .. Len(kept) : i < j => kept[i] < kept[j]
      /\ Len(server_objs) = Len(usage_got.objs)
      /\ \A r \in 1 .. Len(server_objs) :
            /\ DOMAIN server_objs[r] = {"uptime", "ended_at", "uptime_at"}
            /\ server_objs[r]["uptime_at"] = pu_now - usage_got.objs[r]["uptime"]
            /\ server_objs[r]["uptime"] = usage_got.objs[r]["uptime"]
            /\ server_objs[r]["ended_at"] = usage_got.objs[r]["ended_at"]
      /\ ("server_usages" \notin DOMAIN usage_got.attrs) => usage["server_usages"] = <<>>

\* C6 happens: without the query parameter a terminated server usage is
\* dropped, the running one after it is kept, and both got their uptime_at
C6_Witness ==
    /\ pu_pc = "done"
    /\ GET = <<>>
    /\ Len(server_objs) = 2
    /\ Truthy(server_objs[1]["ended_at"])
    /\ ~Truthy(server_objs[2]["ended_at"])
    /\ returned[1]["server_usages"] = <<2>>
    /\ server_objs[1]["uptime_at"] = pu_now - 2

(***************************************************************************)
(* Claims about get_start / get_end (checked under SpecDates)               *)
(***************************************************************************)
Min(a, b) == IF a <= b THEN a ELSE b

\* midnight of the date get_start(year, month, day) + days in that month,
\* for the last get_end call
GeMidnight ==
    MidnightOf(get_start(ge.year, ge.month, ge.day)
               + monthrange_days(ge.year, ge.month) * TicksPerDay)

\* C7: the result of get_end(year, month, day) is the minimum of midnight of
\* the date get_start(year, month, day) + days in the month and the current
\* time, for the current time taken at any instant of the call.
C7_EndIsMinOfMidnightAndNow ==
    dt_pc \in {"get_end", "get_date_range"} =>
        \E now \in ge.now1 .. ge.now2 : ge.result = Min(GeMidnight, now)

\* what does hold of get_end: the result is never after the clock at return,
\* and it is the month-end midnight as soon as that midnight had passed when
\* the call began
C7_EndNeverInFuture ==
    dt_pc \in {"get_end", "get_date_range"} =>
        /\ ge.result <= clock
        /\ GeMidnight <= ge.now1 => ge.result = GeMidnight
        /\ GeMidnight > ge.now1 => ge.result = ge.now2

\* a month that has not started when the call returns: start is after end
C7_FutureMonthStartAfterEnd ==
    (dt_pc = "get_date_range" /\ dr["start"] > clock) => dr["start"] > dr["end"]

\* the call that breaks C7: the clock passes the month-end midnight between
\* the two reads, and get_end returns an instant after that midnight
C7_ClockCrossesMidnight ==
    /\ dt_pc = "get_end"
    /\ ge.now1 < GeMidnight
    /\ GeMidnight < ge.now2
    /\ ge.result > GeMidnight

(***************************************************************************)
(* Claims about the CSV responses (checked under SpecCsv)                   *)
(***************************************************************************)
\* a is a prefix of b
IsPrefix(a, b) == Len(a) <= Len(b) /\ a = SubSeq(b, 1, Len(a))

\* C2: for the same header, columns and rows, the chunks get_content yields,
\* concatenated in order, are the content BaseCsvResponse stores; buffer()
\* hands out the whole buffer and leaves it empty, so at every yield the
\* chunks so far are a prefix of that content and nothing stays behind.
C2_StreamEqualsBuffered ==
    /\ s_pc \in {"rows", "done"} => s_out = NewStringIO
    /\ (b_pc = "done" /\ s_pc \in {"rows", "done"}) => IsPrefix(Concat(chunks), content)
    /\ (b_pc = "done" /\ s_pc = "done") => Concat(chunks) = content

\* C2 happens: a header, two columns and two rows, streamed to the end in
\* three chunks, the last of them not empty, while the buffered response
\* holds a content
C2_Witness ==
    /\ b_pc = "done"
    /\ s_pc = "done"
    /\ HeaderTruthy(csv_in.header)
    /\ csv_in.columns.present
    /\ Len(csv_in.rows) = 2
    /\ Len(chunks) = 3
    /\ chunks[3] # <<>>
    /\ Len(content) > Len(chunks[1]) + Len(chunks[3])

(***************************************************************************)
(* Claims about the batch actions (checked under SpecTables)                *)
(***************************************************************************)
\* the client function a batch action is to delegate to
ClientOf(name) ==
    IF name = "terminate" THEN "terminate_cluster" ELSE "delete_template"

\* C3: applying TerminateCluster (DeleteTemplate) to the selected ids makes
\* exactly one terminate_cluster (delete_template) call per selected id, with
\* that id, and no other client call; no row is refused, because allowed
\* returns True for every row.
C3_BatchDelegates ==
    [][ t_n' = t_n + 1 =>
          /\ t_last'.refused = {}
          /\ \A fn \in ClientFns, obj_id \in ObjIds :
                client_calls'[fn][obj_id] =
                    client_calls[fn][obj_id]
                    + (IF fn = ClientOf(t_last'.action) /\ obj_id \in t_last'.ids
                       THEN 1 ELSE 0) ]_vars

\* C3 happens: two clusters were terminated, then one template deleted; the
\* client got exactly those three calls
C3_Witness ==
    /\ t_n = 2
    /\ t_last = [action |-> "delete_template", ids |-> {"id3"}, refused |-> {}]
    /\ client_calls["terminate_cluster"] = [id1 |-> 1, id2 |-> 1, id3 |-> 0]
    /\ client_calls["delete_template"] = [id1 |-> 0, id2 |-> 0, id3 |-> 1]

====
